---- MODULE Spec2Model ----
(***************************************************************************)
(* Model of backup/api.c (cyrus-imapd, replication-based backup api):     *)
(* backup_open_internal, backup_close, backup_parse_command and            *)
(* backup_reindex, run by a few processes on one backup name.              *)
(*                                                                         *)
(* Spec         the open/close lifecycle of handles in several processes   *)
(* SpecReindex  one process running backup_reindex over a log              *)
(* SpecReindexFair    the same, the process being scheduled                *)
(* SpecReindexSigned  the same, over timestamps below -1                   *)
(* SpecTwoRuns  backup_reindex run twice over the same log                 *)
(* SpecRoundTrip  backup_write_dlist in one process, then backup_reindex   *)
(* SpecParse    one call of backup_parse_command, token by token           *)
(***************************************************************************)
EXTENDS Integers, Sequences, FiniteSets, TLC

(* ------------------------------ bounds -------------------------------- *)
NumProcs == 2
MaxLogLen == 4
MaxTs == 1

Procs == 1 .. NumProcs

(* ------------------------------ enums --------------------------------- *)
BACKUP_LOCK_SHARED == 0
BACKUP_LOCK_EXCLUSIVE == 1

BACKUP_DATA_NORMAL == 0
BACKUP_DATA_APPEND == 1
BACKUP_DATA_CREATE == 2

BACKUP_INDEX_READ == 0
BACKUP_INDEX_WRITE == 1
BACKUP_INDEX_CREATE == 2

LockTypes == {BACKUP_LOCK_SHARED, BACKUP_LOCK_EXCLUSIVE}
DataModes == {BACKUP_DATA_NORMAL, BACKUP_DATA_APPEND, BACKUP_DATA_CREATE}
IndexModes == {BACKUP_INDEX_READ, BACKUP_INDEX_WRITE, BACKUP_INDEX_CREATE}

VARIABLES
    gzfile,      \* the log <name>.gz exists on disk
    idxfile,     \* content of <name>.index ("none" when the file is missing)
    oldidxfile,  \* content of <name>.index.old
    pc,          \* per process: where it is in its call
    arg,         \* per process: the arguments of its backup_open_internal call
    backup,      \* per process: the struct backup it allocated
    backupp,     \* per process: the caller's handle reference is set (*backupp)
    fdopen,      \* per process: its descriptor on the log is open
    fdlock,      \* per process: the lock it holds on the log
    dbopen,      \* per process: its index connection is open
    ret,         \* per process: the value its last call returned
    sidefx,      \* per process: what its open call changed on disk
    log,         \* the content of the log, a sequence of items
    rx,          \* the locals of backup_reindex
    parsed,      \* log positions backup_parse_command delivered a record for
    indexed,     \* log positions passed to backup_index_dlist, in call order
    written,     \* timestamps of the records given to backup_write_dlist
    first,       \* what the call made before the reindex under way left
    line,        \* the input of one backup_parse_command call, token by token
    result       \* what that call returned

disk == <<gzfile, idxfile, oldidxfile>>
procv == <<pc, arg, backup, backupp, fdopen, fdlock, dbopen, ret, sidefx>>
rxv == <<log, rx, parsed, indexed>>
auxv == <<written, first, line, result>>
vars == <<gzfile, idxfile, oldidxfile, pc, arg, backup, backupp, fdopen,
          fdlock, dbopen, ret, sidefx, log, rx, parsed, indexed,
          written, first, line, result>>

(* struct backup after xzmalloc: every field zero, then fd = -1 *)
NullBackup ==
    [fd |-> FALSE, lock_type |-> BACKUP_LOCK_SHARED,
     data_mode |-> BACKUP_DATA_NORMAL, index_mode |-> BACKUP_INDEX_READ,
     db |-> FALSE, oldidxname |-> FALSE]

NoArg == [lock_type |-> BACKUP_LOCK_SHARED, data_mode |-> BACKUP_DATA_NORMAL,
          index_mode |-> BACKUP_INDEX_READ, caller |-> "none"]

(* gzuc is "none" before gzuc_open, then "open" or "null", "closed" after gzuc_close *)
NoRx == [gzuc |-> "none", pos |-> 1, member_ts |-> -1, r |-> "0"]

NoRun == [pc |-> "none", indexed |-> <<>>, pos |-> 0]

NoLine == [hash |-> FALSE, t |-> 0, intc |-> "EOF", verb |-> "", wordc |-> "EOF",
           dl |-> FALSE, dlc |-> "EOF", crc |-> "EOF"]

NoResult == [c |-> "none", ts |-> "unset", cmd |-> "unset", kin |-> "unset"]

(* ------------------------- backup_open_internal ------------------------ *)

(* a switch that forgets to force the lock type *)
ForcedLockType_AsRequested(dm, lt) == lt

(* the lock type the switch on data_mode leaves in the local lock_type *)
ForcedLockType(dm, lt) ==
    IF dm \in {BACKUP_DATA_APPEND, BACKUP_DATA_CREATE}
    THEN BACKUP_LOCK_EXCLUSIVE ELSE lt

(* the flags of CREATE without O_EXCL *)
OpenOutcomes_NoExcl(dm) ==
    IF gzfile \/ dm = BACKUP_DATA_CREATE THEN {"ok", "EACCES"} ELSE {"ENOENT"}

(* open(2) with the flags of the data mode: "ok" or the errno *)
OpenOutcomes(dm) ==
    IF dm = BACKUP_DATA_CREATE
    THEN (IF gzfile THEN {"EEXIST"} ELSE {"ok", "EACCES"})
    ELSE (IF gzfile THEN {"ok", "EACCES"} ELSE {"ENOENT"})

(* a call that always asks for the shared lock *)
LockExclusiveArg_Never(lt) == FALSE

(* the second argument of lock_setlock: exclusive *)
LockExclusiveArg(lt) == lt = BACKUP_LOCK_EXCLUSIVE

(* the third argument of lock_setlock: nonblock *)
LockNonblock == FALSE

(* a lock_setlock that returns without locking *)
LockName_None(excl) == "none"

(* the lock the process holds once lock_setlock has returned 0 *)
LockName(excl) == IF excl THEN "excl" ELSE "shared"

(* another process holds a lock that conflicts with the one p asks for *)
LockConflict(p, excl) ==
    \E q \in Procs \ {p} :
        \/ fdlock[q] = "excl"
        \/ excl /\ fdlock[q] # "none"

(* what is still known of the arguments once the call has failed *)
FailedArg(dm, caller) == [NoArg EXCEPT !.data_mode = dm, !.caller = caller]

(* the error: label; r is the value returned *)
ErrorPath(p, r) ==
    LET unlocked == IF backup[p].lock_type # 0 THEN "none" ELSE fdlock[p]
        \* close(fd) drops the lock the process holds through it
        closed == IF backup[p].fd THEN "none" ELSE unlocked
    IN  /\ fdlock' = [fdlock EXCEPT ![p] = closed]
        /\ fdopen' = [fdopen EXCEPT ![p] = IF backup[p].fd THEN FALSE ELSE @]
        /\ dbopen' = [dbopen EXCEPT ![p] = IF backup[p].db THEN FALSE ELSE @]
        /\ backup' = [backup EXCEPT ![p] = NullBackup]
        /\ ret' = [ret EXCEPT ![p] = r]
        /\ pc' = [pc EXCEPT ![p] = "failed"]
        /\ UNCHANGED backupp

(* goto error after open(2) succeeded: the disk stays as the call left it *)
ErrorReturn(p, r) ==
    /\ ErrorPath(p, r)
    /\ arg' = [arg EXCEPT ![p] = FailedArg(arg[p].data_mode, arg[p].caller)]
    /\ UNCHANGED <<disk, sidefx>>

(* lines 107-144: allocation, the switch, open(2) succeeds *)
OpenLogAs(p, lt, dm, im, caller) ==
    /\ pc[p] = "idle"
    /\ "ok" \in OpenOutcomes(dm)
    /\ arg' = [arg EXCEPT ![p] = [lock_type |-> lt, data_mode |-> dm,
                                  index_mode |-> im, caller |-> caller]]
    /\ backup' = [backup EXCEPT ![p] =
                     [NullBackup EXCEPT !.fd = TRUE, !.data_mode = dm]]
    /\ fdopen' = [fdopen EXCEPT ![p] = TRUE]
    /\ sidefx' = [sidefx EXCEPT ![p] = IF gzfile THEN {} ELSE {"gz"}]
    /\ gzfile' = TRUE
    /\ pc' = [pc EXCEPT ![p] = "setlock"]
    /\ UNCHANGED <<idxfile, oldidxfile, backupp, fdlock, dbopen, ret>>

(* lines 107-143, 185-194: open(2) fails, r = errno *)
OpenLogFailAs(p, lt, dm, im, caller) ==
    /\ pc[p] = "idle"
    /\ \E e \in OpenOutcomes(dm) \ {"ok"} :
          /\ arg' = [arg EXCEPT ![p] = FailedArg(dm, caller)]
          /\ ErrorPath(p, e)
    /\ UNCHANGED <<disk, sidefx>>

OpenLog(p) ==
    \E lt \in LockTypes, dm \in DataModes, im \in IndexModes :
        OpenLogAs(p, lt, dm, im, "open")

OpenLogFail(p) ==
    \E lt \in LockTypes, dm \in DataModes, im \in IndexModes :
        OpenLogFailAs(p, lt, dm, im, "open")

(* lines 146-148 when the lock is granted *)
Granted(p) ==
    LET lt == ForcedLockType(arg[p].data_mode, arg[p].lock_type)
    IN  /\ fdlock' = [fdlock EXCEPT ![p] = LockName(LockExclusiveArg(lt))]
        /\ backup' = [backup EXCEPT ![p].lock_type = lt]
        /\ pc' = [pc EXCEPT ![p] =
                     IF arg[p].index_mode = BACKUP_INDEX_CREATE
                     THEN "rename" ELSE "sqldb"]
        /\ UNCHANGED <<disk, arg, backupp, fdopen, dbopen, ret, sidefx>>

(* lock_setlock finds no conflicting lock *)
SetLock(p) ==
    /\ pc[p] = "setlock"
    /\ ~LockConflict(p, LockExclusiveArg(
            ForcedLockType(arg[p].data_mode, arg[p].lock_type)))
    /\ Granted(p)

(* lock_setlock finds a conflicting lock: fails when nonblock, else waits *)
SetLockConflict(p) ==
    /\ pc[p] = "setlock"
    /\ LockConflict(p, LockExclusiveArg(
            ForcedLockType(arg[p].data_mode, arg[p].lock_type)))
    /\ IF LockNonblock
       THEN ErrorReturn(p, "-1")
       ELSE /\ pc' = [pc EXCEPT ![p] = "lockwait"]
            /\ UNCHANGED <<disk, arg, backup, backupp, fdopen, fdlock,
                           dbopen, ret, sidefx>>

(* the waiting lock_setlock is granted the lock once no conflict is left *)
SetLockWake(p) ==
    /\ pc[p] = "lockwait"
    /\ ~LockConflict(p, LockExclusiveArg(
            ForcedLockType(arg[p].data_mode, arg[p].lock_type)))
    /\ Granted(p)

(* lock_setlock fails for another reason (ENOLCK, EBADF...): r = -1 *)
SetLockFail(p) ==
    /\ pc[p] = "setlock"
    /\ ErrorReturn(p, "-1")

(* the side effect of moving an index of the given content to .old *)
Moved(content) == IF content = "v1" THEN "old_v1" ELSE "old_fresh"

(* lines 158-172: rename(idxname, oldidxname) succeeds or meets ENOENT *)
RenameIndex(p) ==
    /\ pc[p] = "rename"
    /\ IF idxfile = "none"
       THEN UNCHANGED <<idxfile, oldidxfile, sidefx>>
       ELSE /\ oldidxfile' = idxfile
            /\ idxfile' = "none"
            /\ sidefx' = [sidefx EXCEPT ![p] = @ \cup {Moved(idxfile)}]
    /\ backup' = [backup EXCEPT ![p].oldidxname = TRUE]
    /\ pc' = [pc EXCEPT ![p] = "sqldb"]
    /\ UNCHANGED <<gzfile, arg, backupp, fdopen, fdlock, dbopen, ret>>

(* lines 164-169: rename fails with an errno other than ENOENT *)
RenameIndexFail(p) ==
    /\ pc[p] = "rename"
    /\ idxfile # "none"
    /\ ErrorReturn(p, "EACCES")

(* initsql is passed to sqldb_open in modes WRITE and CREATE *)
HasInitSql(im) == im \in {BACKUP_INDEX_WRITE, BACKUP_INDEX_CREATE}

(* lines 174-183: sqldb_open gives a connection, the handle is returned *)
SqldbOpen(p) ==
    /\ pc[p] = "sqldb"
    /\ idxfile # "none" \/ HasInitSql(arg[p].index_mode)
    /\ idxfile' = IF idxfile = "none" THEN "fresh" ELSE idxfile
    /\ dbopen' = [dbopen EXCEPT ![p] = TRUE]
    /\ backup' = [backup EXCEPT ![p].db = TRUE,
                                ![p].index_mode = arg[p].index_mode]
    /\ backupp' = [backupp EXCEPT ![p] = TRUE]
    /\ ret' = [ret EXCEPT ![p] = "0"]
    /\ pc' = [pc EXCEPT ![p] =
                 IF arg[p].caller = "reindex" THEN "gzuc_open" ELSE "opened"]
    /\ UNCHANGED <<gzfile, oldidxfile, arg, fdopen, fdlock, sidefx>>

(* lines 174-178: sqldb_open gives no connection, r = -1 *)
SqldbOpenFail(p) ==
    /\ pc[p] = "sqldb"
    /\ ErrorReturn(p, "-1")

(* ----------------------------- backup_close ---------------------------- *)

(* lines 317-320: returns -1, touches nothing *)
Close(p) ==
    /\ pc[p] = "opened"
    /\ ret' = [ret EXCEPT ![p] = "-1"]
    /\ pc' = [pc EXCEPT ![p] = "closed"]
    /\ UNCHANGED <<disk, arg, backup, backupp, fdopen, fdlock, dbopen, sidefx>>

(* ----------------------------- the log ---------------------------------- *)

TimeStamps == {-1} \cup (0 .. MaxTs)
Verbs == {"APPLY", "apply", "NOOP"}

(* One item of the log: a well-formed record line, a line on which           *)
(* backup_parse_command fails (c is what it returns), or the end of a gzip   *)
(* member.                                                                   *)
Rec(ts, verb) == [k |-> "rec", ts |-> ts, verb |-> verb, c |-> "NL"]
Bad(c) == [k |-> "bad", ts |-> 0, verb |-> "", c |-> c]
EndOfMember == [k |-> "eom", ts |-> 0, verb |-> "", c |-> "EOF"]

Items ==
    {Rec(ts, verb) : ts \in TimeStamps, verb \in Verbs}
        \cup {Bad("EOF"), Bad("x"), EndOfMember}

(* a log is a concatenation of members, each closed by its end *)
Logs ==
    {<<>>} \cup
    UNION {{l \in [1 .. n -> Items] : l[n] = EndOfMember} : n \in 1 .. MaxLogLen}

(* --------------------------- backup_parse_command ---------------------- *)

(* what one call returns on the item at the head of the stream: the value c, *)
(* and whether *ts, *cmd and *kin were assigned                              *)
backup_parse_command(item) ==
    CASE item.k = "eom" -> [c |-> "EOF", delivered |-> FALSE]
      [] item.k = "bad" -> [c |-> item.c, delivered |-> FALSE]
      [] OTHER          -> [c |-> "NL", delivered |-> TRUE]

(* ------------------------------ backup_reindex ------------------------- *)

(* a gzuc_member_end that leaves the stream where it is *)
NextMember_Stay(pos) == pos

(* gzuc_member_end: the stream is left at the start of the next member *)
NextMember(pos) ==
    LET ends == {j \in pos .. Len(log) : log[j].k = "eom"}
    IN  IF ends = {} THEN Len(log) + 1
        ELSE 1 + CHOOSE j \in ends : \A i \in ends : j <= i

(* lines 284-287: "set" the cursor, "fatal", or "keep" it *)
TimestampCheck(member_ts, ts) ==
    IF member_ts = -1 THEN "set"
    ELSE IF member_ts > ts THEN "fatal"
    ELSE "keep"

(* a comparison that ignores case, as strcasecmp would *)
VerbIsApply_IgnoreCase(cmd) == cmd \in {"APPLY", "apply"}

(* line 289: strcmp(buf_cstring(&cmd), "APPLY") == 0 *)
VerbIsApply(cmd) == cmd = "APPLY"

(* the timestamp check made only once the verb is known to be APPLY *)
RecordCheck_AfterVerb(member_ts, ts, cmd) ==
    IF VerbIsApply(cmd) THEN TimestampCheck(member_ts, ts) ELSE "keep"

(* lines 284-290: the check comes first, whatever cmd holds *)
RecordCheck(member_ts, ts, cmd) == TimestampCheck(member_ts, ts)

(* lines 327-330: backup_index_dlist returns -1 *)
backup_index_dlist == "-1"

(* a replay that gives up on the first index-write that fails *)
OnIndexResult_Stop(r) == IF r # "0" THEN "stop" ELSE "continue"

(* lines 295-297: if (r) with an empty body: the loop goes on *)
OnIndexResult(r) == "continue"

(* fatal(): the process ends; its descriptors and locks go with it *)
Fatal(p) ==
    /\ pc' = [pc EXCEPT ![p] = "aborted"]
    /\ fdopen' = [fdopen EXCEPT ![p] = FALSE]
    /\ fdlock' = [fdlock EXCEPT ![p] = "none"]
    /\ dbopen' = [dbopen EXCEPT ![p] = FALSE]
    /\ UNCHANGED <<disk, arg, backup, backupp, ret, sidefx, log>>

(* line 259: the open of backup_reindex *)
ReindexOpen(p) ==
    /\ OpenLogAs(p, BACKUP_LOCK_EXCLUSIVE, BACKUP_DATA_NORMAL,
                 BACKUP_INDEX_CREATE, "reindex")
    /\ UNCHANGED rxv

(* lines 259-260: open(2) fails, backup_reindex returns r *)
ReindexOpenFail(p) ==
    /\ OpenLogFailAs(p, BACKUP_LOCK_EXCLUSIVE, BACKUP_DATA_NORMAL,
                     BACKUP_INDEX_CREATE, "reindex")
    /\ UNCHANGED rxv

(* a loop test that does not look at gzuc being NULL *)
LoopGuard_NoNullTest(gzuc, pos) == pos <= Len(log)

(* line 265: while (gzuc && !gzuc_eof(gzuc)) *)
LoopGuard(gzuc, pos) == gzuc = "open" /\ pos <= Len(log)

(* line 263: gzuc_open gives a stream or NULL *)
GzucOpen(p) ==
    /\ pc[p] = "gzuc_open"
    /\ \E g \in {"open", "null"} : rx' = [rx EXCEPT !.gzuc = g, !.pos = 1]
    /\ pc' = [pc EXCEPT ![p] = "outer"]
    /\ UNCHANGED <<disk, arg, backup, backupp, fdopen, fdlock, dbopen, ret,
                   sidefx, log, parsed, indexed>>

(* lines 265-274: the outer loop enters a member *)
MemberStart(p) ==
    /\ pc[p] = "outer"
    /\ LoopGuard(rx.gzuc, rx.pos)
    /\ rx' = [rx EXCEPT !.member_ts = -1]
    /\ pc' = [pc EXCEPT ![p] = "inner"]
    /\ UNCHANGED <<disk, arg, backup, backupp, fdopen, fdlock, dbopen, ret,
                   sidefx, log, parsed, indexed>>

(* lines 281-282, 300-301: the parse returns EOF, the member is left *)
MemberEnd(p) ==
    /\ pc[p] = "inner"
    /\ backup_parse_command(log[rx.pos]).c = "EOF"
    /\ rx' = [rx EXCEPT !.pos = NextMember(rx.pos)]
    /\ pc' = [pc EXCEPT ![p] = "outer"]
    /\ UNCHANGED <<disk, arg, backup, backupp, fdopen, fdlock, dbopen, ret,
                   sidefx, log, parsed, indexed>>

(* lines 281-298: one pass of the inner loop on a delivered record *)
Record(p) ==
    /\ pc[p] = "inner"
    /\ backup_parse_command(log[rx.pos]).delivered
    /\ LET ts == log[rx.pos].ts
           cmd == log[rx.pos].verb
           chk == RecordCheck(rx.member_ts, ts, cmd)
           go == IF VerbIsApply(cmd)
                 THEN OnIndexResult(backup_index_dlist) ELSE "continue"
       IN  /\ chk # "fatal"
           /\ rx' = [rx EXCEPT
                        !.pos = IF go = "continue" THEN @ + 1
                                ELSE Len(log) + 1,
                        !.member_ts = IF chk = "set" THEN ts ELSE @,
                        !.r = IF VerbIsApply(cmd) THEN backup_index_dlist ELSE @]
           /\ indexed' = IF VerbIsApply(cmd)
                         THEN Append(indexed, rx.pos) ELSE indexed
           /\ pc' = [pc EXCEPT ![p] = IF go = "continue" THEN @ ELSE "outer"]
    /\ parsed' = Append(parsed, rx.pos)
    /\ UNCHANGED <<disk, arg, backup, backupp, fdopen, fdlock, dbopen, ret,
                   sidefx, log>>

(* lines 281-287: a delivered record older than the cursor: fatal *)
RecordFatal(p) ==
    /\ pc[p] = "inner"
    /\ backup_parse_command(log[rx.pos]).delivered
    /\ RecordCheck(rx.member_ts, log[rx.pos].ts, log[rx.pos].verb) = "fatal"
    /\ parsed' = Append(parsed, rx.pos)
    /\ Fatal(p)
    /\ UNCHANGED <<rx, indexed>>

(* lines 281-290: the parse failed with c other than EOF; ts was never       *)
(* assigned and is read as it is, cmd is the empty buffer                    *)
FailedParse(p) ==
    /\ pc[p] = "inner"
    /\ ~backup_parse_command(log[rx.pos]).delivered
    /\ backup_parse_command(log[rx.pos]).c # "EOF"
    /\ \E ts \in TimeStamps :
          LET chk == TimestampCheck(rx.member_ts, ts)
          IN  IF chk = "fatal"
              THEN Fatal(p) /\ UNCHANGED rx
              ELSE /\ rx' = [rx EXCEPT
                               !.pos = @ + 1,
                               !.member_ts = IF chk = "set" THEN ts ELSE @]
                   /\ UNCHANGED <<disk, procv, log>>
    /\ UNCHANGED <<parsed, indexed>>

(* a return that passes on a failure of backup_close *)
ReturnValue_Close(r, closed) == IF closed # "0" THEN closed ELSE r

(* lines 307-309: the result of backup_close is dropped, r is returned *)
ReturnValue(r, closed) == r

(* lines 304-309: gzuc_close, backup_close, return r *)
ReindexReturn(p) ==
    /\ pc[p] = "outer"
    /\ ~LoopGuard(rx.gzuc, rx.pos)
    /\ rx' = [rx EXCEPT !.gzuc = IF @ = "open" THEN "closed" ELSE @]
    /\ ret' = [ret EXCEPT ![p] = ReturnValue(rx.r, "-1")]
    /\ pc' = [pc EXCEPT ![p] = "returned"]
    /\ UNCHANGED <<disk, arg, backup, backupp, fdopen, fdlock, dbopen,
                   sidefx, log, parsed, indexed>>

(* ------------------------------ lifecycle ------------------------------ *)

(* nothing was appended, no earlier run, no parse under way *)
AuxInit ==
    /\ written = <<>>
    /\ first = NoRun
    /\ line = NoLine
    /\ result = NoResult

ProcInit ==
    /\ pc = [p \in Procs |-> "idle"]
    /\ arg = [p \in Procs |-> NoArg]
    /\ backup = [p \in Procs |-> NullBackup]
    /\ backupp = [p \in Procs |-> FALSE]
    /\ fdopen = [p \in Procs |-> FALSE]
    /\ fdlock = [p \in Procs |-> "none"]
    /\ dbopen = [p \in Procs |-> FALSE]
    /\ ret = [p \in Procs |-> "none"]
    /\ sidefx = [p \in Procs |-> {}]

Init ==
    /\ gzfile \in BOOLEAN
    /\ idxfile \in {"none", "v1"}
    /\ oldidxfile = "none"
    /\ ProcInit
    /\ log = <<>>
    /\ rx = NoRx
    /\ parsed = <<>>
    /\ indexed = <<>>
    /\ AuxInit

Next ==
    \E p \in Procs :
        \/ OpenLog(p) /\ UNCHANGED <<rxv, auxv>>
        \/ OpenLogFail(p) /\ UNCHANGED <<rxv, auxv>>
        \/ SetLock(p) /\ UNCHANGED <<rxv, auxv>>
        \/ SetLockConflict(p) /\ UNCHANGED <<rxv, auxv>>
        \/ SetLockWake(p) /\ UNCHANGED <<rxv, auxv>>
        \/ SetLockFail(p) /\ UNCHANGED <<rxv, auxv>>
        \/ RenameIndex(p) /\ UNCHANGED <<rxv, auxv>>
        \/ RenameIndexFail(p) /\ UNCHANGED <<rxv, auxv>>
        \/ SqldbOpen(p) /\ UNCHANGED <<rxv, auxv>>
        \/ SqldbOpenFail(p) /\ UNCHANGED <<rxv, auxv>>
        \/ Close(p) /\ UNCHANGED <<rxv, auxv>>

Spec == Init /\ [][Next]_vars

(* --------------------------- one reindex run --------------------------- *)

(* the process that runs backup_reindex *)
RX == 1

InitReindex ==
    /\ idxfile \in {"none", "v1"}
    /\ oldidxfile = "none"
    /\ ProcInit
    /\ \/ gzfile = FALSE /\ log = <<>>
       \/ gzfile = TRUE /\ log \in Logs
    /\ rx = NoRx
    /\ parsed = <<>>
    /\ indexed = <<>>
    /\ AuxInit

NextReindex ==
    \/ ReindexOpen(RX) /\ UNCHANGED auxv
    \/ ReindexOpenFail(RX) /\ UNCHANGED auxv
    \/ SetLock(RX) /\ UNCHANGED <<rxv, auxv>>
    \/ SetLockFail(RX) /\ UNCHANGED <<rxv, auxv>>
    \/ RenameIndex(RX) /\ UNCHANGED <<rxv, auxv>>
    \/ RenameIndexFail(RX) /\ UNCHANGED <<rxv, auxv>>
    \/ SqldbOpen(RX) /\ UNCHANGED <<rxv, auxv>>
    \/ SqldbOpenFail(RX) /\ UNCHANGED <<rxv, auxv>>
    \/ GzucOpen(RX) /\ UNCHANGED auxv
    \/ MemberStart(RX) /\ UNCHANGED auxv
    \/ MemberEnd(RX) /\ UNCHANGED auxv
    \/ Record(RX) /\ UNCHANGED auxv
    \/ RecordFatal(RX) /\ UNCHANGED auxv
    \/ FailedParse(RX) /\ UNCHANGED auxv
    \/ ReindexReturn(RX) /\ UNCHANGED auxv

SpecReindex == InitReindex /\ [][NextReindex]_vars

(* the logs of the termination check: the verb counts only through the      *)
(* strcmp with "APPLY", so one verb that is APPLY and one that is not        *)
InitTerm ==
    /\ InitReindex
    /\ \A i \in 1 .. Len(log) : log[i].verb # "apply"

(* the process is scheduled for as long as it has a step to take *)
SpecReindexFair == InitTerm /\ [][NextReindex]_vars /\ WF_vars(NextReindex)

(* ---------------------- reindex over signed timestamps ----------------- *)

(* time_t is signed: timestamps below the -1 that marks the unset cursor *)
SignedTimeStamps == (-1 - MaxTs) .. MaxTs

SignedLogs ==
    LET items == {Rec(ts, verb) : ts \in SignedTimeStamps, verb \in Verbs}
                     \cup {Bad("EOF"), Bad("x"), EndOfMember}
    IN  {<<>>} \cup
        UNION {{l \in [1 .. n -> items] : l[n] = EndOfMember} :
                   n \in 1 .. (MaxLogLen - 1)}

InitSigned ==
    /\ idxfile \in {"none", "v1"}
    /\ oldidxfile = "none"
    /\ ProcInit
    /\ gzfile = TRUE
    /\ log \in SignedLogs
    /\ rx = NoRx
    /\ parsed = <<>>
    /\ indexed = <<>>
    /\ AuxInit

SpecReindexSigned == InitSigned /\ [][NextReindex]_vars

(* --------------------------- two runs of reindex ------------------------ *)

(* the process of a reindex that read the log has ended; what it did is     *)
(* kept in first, and backup_reindex is called again, in a new process, on   *)
(* the same log                                                              *)
RunAgain ==
    /\ first = NoRun
    /\ pc[RX] \in {"returned", "aborted"}
    /\ rx.gzuc \in {"open", "closed"}
    /\ first' = [pc |-> pc[RX], indexed |-> indexed, pos |-> rx.pos]
    /\ pc' = [pc EXCEPT ![RX] = "idle"]
    /\ arg' = [arg EXCEPT ![RX] = NoArg]
    /\ backup' = [backup EXCEPT ![RX] = NullBackup]
    /\ backupp' = [backupp EXCEPT ![RX] = FALSE]
    /\ fdopen' = [fdopen EXCEPT ![RX] = FALSE]
    /\ fdlock' = [fdlock EXCEPT ![RX] = "none"]
    /\ dbopen' = [dbopen EXCEPT ![RX] = FALSE]
    /\ ret' = [ret EXCEPT ![RX] = "none"]
    /\ sidefx' = [sidefx EXCEPT ![RX] = {}]
    /\ rx' = NoRx
    /\ parsed' = <<>>
    /\ indexed' = <<>>
    /\ UNCHANGED <<disk, log, written, line, result>>

NextTwoRuns ==
    \/ NextReindex
    \/ RunAgain

SpecTwoRuns == InitReindex /\ [][NextTwoRuns]_vars

(* ------------------- backup_write_dlist, then reindex ------------------- *)

(* the process that appends *)
AP == 2

(* the live writer opens the backup to append to it *)
AppendOpen(p) ==
    OpenLogAs(p, BACKUP_LOCK_EXCLUSIVE, BACKUP_DATA_APPEND,
              BACKUP_INDEX_WRITE, "append")

AppendOpenFail(p) ==
    OpenLogFailAs(p, BACKUP_LOCK_EXCLUSIVE, BACKUP_DATA_APPEND,
                  BACKUP_INDEX_WRITE, "append")

(* lines 322-325: backup_write_dlist(backup, ts, dl) returns -1; the log is  *)
(* as it was. first keeps where the log ended when the call was made.        *)
WriteDlist(p) ==
    /\ pc[p] = "opened"
    /\ written = <<>>
    /\ \E ts \in TimeStamps : written' = <<ts>>
    /\ first' = [pc |-> "append", indexed |-> <<>>, pos |-> Len(log)]
    /\ ret' = [ret EXCEPT ![p] = "-1"]
    /\ UNCHANGED <<disk, pc, arg, backup, backupp, fdopen, fdlock, dbopen,
                   sidefx, rxv, line, result>>

(* the appending process ends; its descriptors and locks go with it *)
AppendExit(p) ==
    /\ pc[p] \in {"opened", "failed"}
    /\ pc' = [pc EXCEPT ![p] = "exited"]
    /\ fdopen' = [fdopen EXCEPT ![p] = FALSE]
    /\ fdlock' = [fdlock EXCEPT ![p] = "none"]
    /\ dbopen' = [dbopen EXCEPT ![p] = FALSE]
    /\ UNCHANGED <<disk, arg, backup, backupp, ret, sidefx, rxv, auxv>>

NextRoundTrip ==
    \/ AppendOpen(AP) /\ UNCHANGED <<rxv, auxv>>
    \/ AppendOpenFail(AP) /\ UNCHANGED <<rxv, auxv>>
    \/ SetLock(AP) /\ UNCHANGED <<rxv, auxv>>
    \/ SetLockFail(AP) /\ UNCHANGED <<rxv, auxv>>
    \/ SqldbOpen(AP) /\ UNCHANGED <<rxv, auxv>>
    \/ SqldbOpenFail(AP) /\ UNCHANGED <<rxv, auxv>>
    \/ WriteDlist(AP)
    \/ AppendExit(AP)
    \/ pc[AP] = "exited" /\ NextReindex

SpecRoundTrip == InitReindex /\ [][NextRoundTrip]_vars

(* ------------------- backup_parse_command, token by token --------------- *)

(* One line as the calls of backup_parse_command meet it: whether a '#'      *)
(* comment line comes first, the integer and what getint64 returns after     *)
(* it, the word and what getword returns after it, whether dlist_parse       *)
(* gives a list and what it returns, and the character after a '\r'.         *)
Lines ==
    [hash : BOOLEAN, t : TimeStamps, intc : {"EOF", "SP"},
     verb : Verbs, wordc : {"EOF", "SP"},
     dl : BOOLEAN, dlc : {"EOF", "CR", "NL", "x"},
     crc : {"EOF", "NL", "x"}]

(* lines 210-254: the value returned, and *ts, *cmd and *kin as the caller   *)
(* finds them ("unset": not assigned by this call)                           *)
ParseCommand(l) ==
    LET fail(c) == [c |-> c, ts |-> "unset", cmd |-> "unset", kin |-> "unset"]
        c4 == IF l.dlc = "CR" THEN l.crc ELSE l.dlc
    IN  IF l.intc = "EOF" THEN fail("EOF")
        ELSE IF l.wordc = "EOF" THEN fail("EOF")
        ELSE IF ~l.dl THEN fail(l.dlc)
        ELSE IF c4 # "NL" THEN fail(c4)
        ELSE [c |-> c4, ts |-> l.t, cmd |-> l.verb, kin |-> "dl"]

(* one call of backup_parse_command on the line *)
ParseStep ==
    /\ result = NoResult
    /\ result' = ParseCommand(line)
    /\ UNCHANGED <<disk, procv, rxv, written, first, line>>

InitParse ==
    /\ gzfile = TRUE
    /\ idxfile = "none"
    /\ oldidxfile = "none"
    /\ ProcInit
    /\ log = <<>>
    /\ rx = NoRx
    /\ parsed = <<>>
    /\ indexed = <<>>
    /\ written = <<>>
    /\ first = NoRun
    /\ line \in Lines
    /\ result = NoResult

NextParse == ParseStep

SpecParse == InitParse /\ [][NextParse]_vars

(* ------------------------------ properties ----------------------------- *)

Range(f) == {f[i] : i \in DOMAIN f}

StrictlyIncreasing(f) ==
    \A m, n \in DOMAIN f : m < n => f[m] < f[n]

(* positions i and j of the log lie in the same member *)
SameMember(i, j) ==
    \A e \in 1 .. Len(log) :
        log[e].k = "eom" => ~((i <= e /\ e < j) \/ (j <= e /\ e < i))

(* the positions of the well-formed APPLY records in a set of positions *)
ApplyPositions(S) ==
    {i \in S : log[i].k = "rec" /\ log[i].verb = "APPLY"}

(* f lists exactly the positions of S, each once, in log order *)
ListsInOrder(f, S) ==
    /\ Range(f) = S
    /\ Len(f) = Cardinality(S)
    /\ StrictlyIncreasing(f)

(* C1: a backup_open_internal that failed returned no handle and left       *)
(* nothing behind: no lock, no open descriptor, no index connection, and    *)
(* nothing it changed on disk (no created log, no index moved to .old).     *)
C1_FailedOpenLeavesNothing ==
    \A p \in Procs :
        pc[p] = "failed" =>
            /\ ~backupp[p]
            /\ fdlock[p] = "none"
            /\ ~fdopen[p]
            /\ ~dbopen[p]
            /\ sidefx[p] = {}

(* C2: at most one process holds the exclusive lock, and while a handle     *)
(* with the EXCLUSIVE lock is open no other handle is open on the name.     *)
C2_MutualExclusion ==
    \A p, q \in Procs :
        p # q =>
            /\ fdlock[p] = "excl" => fdlock[q] = "none"
            /\ (backupp[p] /\ backup[p].lock_type = BACKUP_LOCK_EXCLUSIVE)
                   => ~backupp[q]

(* C2 witness: one process has an EXCLUSIVE handle open while another has   *)
(* opened the log and asked for the lock.                                   *)
C2_Witness ==
    \E p, q \in Procs :
        /\ p # q
        /\ backupp[p] /\ backup[p].lock_type = BACKUP_LOCK_EXCLUSIVE
        /\ fdlock[p] = "excl"
        /\ pc[q] = "lockwait"

(* C3: the opening process is never waiting inside lock_setlock for the     *)
(* holder of a conflicting lock to release it.                              *)
C3_NeverWaitsForLock ==
    \A p \in Procs : pc[p] # "lockwait"

(* C4: once backup_close has returned, the handle holds no lock, no open    *)
(* descriptor and no index connection, and the caller's reference is unset. *)
C4_CloseReleasesAll ==
    \A p \in Procs :
        pc[p] = "closed" =>
            /\ fdlock[p] = "none"
            /\ ~fdopen[p]
            /\ ~dbopen[p]
            /\ ~backupp[p]

(* C5: when a backup_reindex that opened its handle has returned, the lock  *)
(* is released, the descriptor closed and the index connection closed.      *)
C5_ReindexReturnsClosed ==
    pc[RX] = "returned" =>
        /\ fdlock[RX] = "none"
        /\ ~fdopen[RX]
        /\ ~dbopen[RX]

(* C6: a delivered record whose timestamp is lower than that of the         *)
(* delivered record just before it in the same member makes reindex abort   *)
(* at that record, which is not indexed, and nothing is parsed after it.    *)
C6_RegressionAborts ==
    \A n \in 2 .. Len(parsed) :
        (/\ SameMember(parsed[n - 1], parsed[n])
         /\ log[parsed[n]].ts < log[parsed[n - 1]].ts)
            => /\ pc[RX] = "aborted"
               /\ n = Len(parsed)
               /\ parsed[n] \notin Range(indexed)

(* the end of the first member of the log *)
FirstEnd == CHOOSE e \in 1 .. Len(log) :
                /\ log[e].k = "eom"
                /\ \A i \in 1 .. (e - 1) : log[i].k # "eom"

(* the second member starts with a record older than the record that ends   *)
(* the first member                                                         *)
SecondMemberRegresses ==
    /\ log # <<>>
    /\ FirstEnd > 1 /\ FirstEnd < Len(log)
    /\ log[FirstEnd - 1].k = "rec"
    /\ log[FirstEnd + 1].k = "rec"
    /\ log[FirstEnd + 1].ts < log[FirstEnd - 1].ts

(* C7: when the first record of the second member is older than the last   *)
(* record of the first member, reindex aborts at that record: it is not     *)
(* indexed and nothing is parsed after it.                                  *)
C7_CrossMemberRegressionAborts ==
    (SecondMemberRegresses /\ (FirstEnd + 1) \in Range(parsed))
        => /\ pc[RX] = "aborted"
           /\ parsed[Len(parsed)] = FirstEnd + 1
           /\ (FirstEnd + 1) \notin Range(indexed)

(* C8: every position passed to index-write holds a record whose verb is    *)
(* exactly "APPLY", and the calls are in log order.                         *)
C8_OnlyApplyInLogOrder ==
    /\ \A n \in DOMAIN indexed :
          log[indexed[n]].k = "rec" /\ log[indexed[n]].verb = "APPLY"
    /\ StrictlyIncreasing(indexed)

(* C8 witness: a finished run indexed two records and parsed, between       *)
(* them, a record with another verb.                                        *)
C8_Witness ==
    /\ pc[RX] = "returned"
    /\ Len(indexed) = 2
    /\ \E i \in Range(parsed) :
          /\ indexed[1] < i /\ i < indexed[2]
          /\ log[i].verb \in {"apply", "NOOP"}

(* C9: a reindex that read the log and returned has called index-write      *)
(* exactly once for every APPLY record of the log, in log order; one that   *)
(* aborted has done so for exactly the APPLY records before the record it   *)
(* aborted at.                                                              *)
C9_EveryApplyIndexedOnce ==
    /\ (pc[RX] = "returned" /\ rx.gzuc = "closed")
          => ListsInOrder(indexed, ApplyPositions(1 .. Len(log)))
    /\ pc[RX] = "aborted"
          => ListsInOrder(indexed, ApplyPositions(1 .. (rx.pos - 1)))

(* C10: an open handle records the data mode and index mode asked for, and  *)
(* the lock type EXCLUSIVE for APPEND and CREATE, else the one asked for;   *)
(* the lock held on the file is of the recorded type.                       *)
C10_HandleRecordsModes ==
    \A p \in Procs :
        backupp[p] =>
            /\ backup[p].data_mode = arg[p].data_mode
            /\ backup[p].index_mode = arg[p].index_mode
            /\ backup[p].lock_type =
                  (IF arg[p].data_mode = BACKUP_DATA_NORMAL
                   THEN arg[p].lock_type ELSE BACKUP_LOCK_EXCLUSIVE)
            /\ fdlock[p] = (IF backup[p].lock_type = BACKUP_LOCK_EXCLUSIVE
                            THEN "excl" ELSE "shared")

(* C10 witness: a handle opened with APPEND and a SHARED request records    *)
(* and holds the exclusive lock.                                            *)
C10_Witness ==
    \E p \in Procs :
        /\ backupp[p]
        /\ arg[p].data_mode = BACKUP_DATA_APPEND
        /\ arg[p].lock_type = BACKUP_LOCK_SHARED
        /\ backup[p].lock_type = BACKUP_LOCK_EXCLUSIVE
        /\ fdlock[p] = "excl"

(* C11: a call with data mode CREATE on an existing log fails with EEXIST,  *)
(* a call with NORMAL or APPEND on a missing log fails with ENOENT and      *)
(* creates nothing; the call fails in that one step, without another try.   *)
C11_CreateNeedsNoLogOthersNeedOne ==
    [][\A p \in Procs :
          (pc[p] = "idle" /\ pc'[p] # "idle") =>
              /\ (arg'[p].data_mode = BACKUP_DATA_CREATE /\ gzfile)
                    => (pc'[p] = "failed" /\ ret'[p] = "EEXIST")
              /\ (arg'[p].data_mode # BACKUP_DATA_CREATE /\ ~gzfile)
                    => (pc'[p] = "failed" /\ ret'[p] = "ENOENT" /\ ~gzfile')
      ]_vars

(* C11 witness: one call with CREATE has failed with EEXIST on the log      *)
(* that another call had opened.                                            *)
C11_Witness ==
    \E p, q \in Procs :
        /\ pc[p] = "failed" /\ ret[p] = "EEXIST"
        /\ arg[p].data_mode = BACKUP_DATA_CREATE
        /\ fdopen[q] /\ arg[q].data_mode # BACKUP_DATA_CREATE

(* C12: while a handle opened with index mode CREATE is open, a fresh index *)
(* is at the index path and the index the open moved aside, if there was    *)
(* one, is at the .old path unchanged.                                      *)
C12_PriorIndexKeptAside ==
    \A p \in Procs :
        (backupp[p] /\ backup[p].index_mode = BACKUP_INDEX_CREATE) =>
            /\ idxfile = "fresh"
            /\ "old_v1" \in sidefx[p] => oldidxfile = "v1"
            /\ "old_fresh" \in sidefx[p] => oldidxfile = "fresh"

(* C13: a process that is at the rename of the index, at sqldb_open, or     *)
(* that has its index connection open, holds the file lock on its log       *)
(* through an open descriptor; a failed open holds neither.                 *)
C13_IndexOpenImpliesLockHeld ==
    \A p \in Procs :
        /\ (pc[p] \in {"rename", "sqldb"} \/ dbopen[p])
              => (fdopen[p] /\ fdlock[p] # "none")
        /\ pc[p] = "failed" => (~dbopen[p] /\ fdlock[p] = "none")

C13_Witness ==
    \E p, q \in Procs :
        /\ dbopen[p] /\ fdlock[p] # "none" /\ "old_v1" \in sidefx[p]
        /\ pc[q] = "failed" /\ ret[q] = "EACCES"

(* the (lock, data mode, index mode) combinations the open is meant to serve *)
SupportedModes ==
    { <<BACKUP_LOCK_SHARED, BACKUP_DATA_NORMAL, BACKUP_INDEX_READ>>,
      <<BACKUP_LOCK_EXCLUSIVE, BACKUP_DATA_APPEND, BACKUP_INDEX_WRITE>>,
      <<BACKUP_LOCK_EXCLUSIVE, BACKUP_DATA_CREATE, BACKUP_INDEX_CREATE>>,
      <<BACKUP_LOCK_EXCLUSIVE, BACKUP_DATA_NORMAL, BACKUP_INDEX_CREATE>> }

(* C14: every handle an open returned was asked for with a supported        *)
(* combination of lock, data mode and index mode, and no handle has index   *)
(* mode WRITE or CREATE while its process holds only a shared lock.         *)
C14_OnlySupportedModes ==
    \A p \in Procs :
        backupp[p] =>
            /\ <<arg[p].lock_type, arg[p].data_mode, arg[p].index_mode>>
                  \in SupportedModes
            /\ backup[p].index_mode # BACKUP_INDEX_READ => fdlock[p] = "excl"

(* C17: a failed parse ends the member: no record is parsed after a line    *)
(* that failed to parse in the same member, and reindex never aborts on the *)
(* timestamp check at a line that failed to parse.                          *)
C17_FailedParseEndsChunk ==
    /\ \A n \in DOMAIN parsed :
          ~\E i \in 1 .. (parsed[n] - 1) :
              log[i].k = "bad" /\ SameMember(i, parsed[n])
    /\ pc[RX] = "aborted" => log[rx.pos].k = "rec"

(* the first position of the member that holds position j *)
MemberFirst(j) ==
    CHOOSE i \in 1 .. j :
        SameMember(i, j) /\ \A h \in 1 .. (i - 1) : ~SameMember(h, j)

(* every line of j's member before j parsed well *)
CleanBefore(j) == \A i \in MemberFirst(j) .. (j - 1) : log[i].k = "rec"

(* the cursor the record at j is compared against: the timestamp of the     *)
(* first record of the member that is not -1, whatever its verb             *)
CursorAt(j) ==
    LET S == {i \in MemberFirst(j) .. (j - 1) : log[i].ts # -1}
    IN  IF S = {} THEN -1
        ELSE log[CHOOSE i \in S : \A h \in S : i <= h].ts

C20_IndexFailureNotActedOn ==
    /\ []((\A i \in 1 .. Len(log) : log[i].k # "bad") =>
            /\ pc[RX] \in {"inner", "outer", "aborted"}
                  => ListsInOrder(indexed, ApplyPositions(1 .. (rx.pos - 1)))
            /\ (pc[RX] = "returned" /\ rx.gzuc = "closed")
                  => ListsInOrder(indexed, ApplyPositions(1 .. Len(log)))
            /\ indexed # <<>> => rx.r # "0")
    /\ [][Len(indexed') > Len(indexed) =>
             /\ rx'.r # "0"
             /\ pc'[RX] = "inner"
             /\ rx'.pos = rx.pos + 1]_vars

(* C20 witness: a finished reindex made three index-write calls, each       *)
(* returning -1, and returned the last result.                              *)
C20_Witness ==
    /\ pc[RX] = "returned"
    /\ Len(indexed) = 3
    /\ ret[RX] = "-1"

(* the three-way result the line is meant to give: the end of the stream    *)
(* only while reading the timestamp or the verb, malformed when the payload  *)
(* fails to parse or is not followed by a line terminator, else success     *)
ThreeWay(l) ==
    IF l.intc = "EOF" \/ l.wordc = "EOF" THEN "endOfStream"
    ELSE IF ~l.dl THEN "malformed"
    ELSE IF l.dlc = "NL" \/ (l.dlc = "CR" /\ l.crc = "NL") THEN "success"
    ELSE "malformed"

(* C18: what the caller gets back for a malformed line differs from what it *)
(* gets back for every line that is the end of the stream or a success, and *)
(* the timestamp, verb and payload are assigned only on success.            *)
C18_MalformedDistinguishable ==
    result # NoResult =>
        /\ ThreeWay(line) = "malformed" =>
              \A l \in Lines :
                  ThreeWay(l) # "malformed" => ParseCommand(l) # result
        /\ ThreeWay(line) # "success" =>
              (result.ts = "unset" /\ result.cmd = "unset"
                  /\ result.kin = "unset")
        /\ ThreeWay(line) = "success" =>
              (result.ts = line.t /\ result.cmd = line.verb
                  /\ result.kin = "dl")

(* C16: a second reindex that read the same log made the same index-write   *)
(* calls as the first, in the same order, and ended the same way at the     *)
(* same place of the log.                                                   *)
C16_TwoRunsAgree ==
    (/\ first # NoRun
     /\ pc[RX] \in {"returned", "aborted"}
     /\ rx.gzuc \in {"open", "closed"})
        => /\ indexed = first.indexed
           /\ pc[RX] = first.pc
           /\ rx.pos = first.pos

(* C15: after backup_write_dlist was given an APPLY record and a reindex    *)
(* then read the log and returned, the record stands in the log after the   *)
(* place the log ended at, and the reindex passed it to index-write with    *)
(* the timestamp it was written with, as a direct backup_index_dlist call   *)
(* would have been.                                                         *)
C15_AppendThenReindexIndexes ==
    (/\ written # <<>>
     /\ pc[RX] = "returned"
     /\ rx.gzuc = "closed")
        => \E n \in DOMAIN indexed :
              /\ indexed[n] > first.pos
              /\ log[indexed[n]].ts = written[1]
              /\ log[indexed[n]].verb = "APPLY"

(* C21: once backup_reindex has opened its handle, whatever the log holds,  *)
(* it eventually returns or aborts.                                         *)
C21_ReindexTerminates ==
    (pc[RX] = "gzuc_open") ~> (pc[RX] \in {"returned", "aborted"})

(* C21 witness: a reindex returned after reading a log of two members that  *)
(* holds a line that failed to parse and a record it parsed.                *)
C21_Witness ==
    /\ pc[RX] = "returned"
    /\ rx.gzuc = "closed"
    /\ Cardinality({i \in 1 .. Len(log) : log[i].k = "eom"}) = 2
    /\ \E i \in 1 .. Len(log) : log[i].k = "bad" /\ log[i].c = "x"
    /\ parsed # <<>>

(* C22: a reindex that opened its handle and returned gave back 0 when it   *)
(* made no index-write call, and else what its last index-write call        *)
(* returned; the -1 of backup_close is not in the value.                    *)
C22_ReturnsLastIndexResult ==
    pc[RX] = "returned" =>
        ret[RX] = IF indexed = <<>> THEN "0" ELSE backup_index_dlist

(* C22 witness: a reindex read a log, parsed records none of which is an    *)
(* APPLY, and returned 0.                                                   *)
C22_Witness ==
    /\ pc[RX] = "returned"
    /\ rx.gzuc = "closed"
    /\ parsed # <<>>
    /\ indexed = <<>>
    /\ ret[RX] = "0"

(* the first record parsed in the member that holds position j *)
FirstParsed(j) ==
    CHOOSE i \in Range(parsed) :
        /\ SameMember(i, j)
        /\ \A h \in Range(parsed) : SameMember(h, j) => i <= h

(* C23: as long as reindex has not aborted, every record it parsed has a    *)
(* timestamp not lower than that of the first record it parsed in the same  *)
(* member.                                                                  *)
C23_NotBelowFirstOfMember ==
    pc[RX] # "aborted" =>
        \A n \in DOMAIN parsed :
            log[parsed[n]].ts >= log[FirstParsed(parsed[n])].ts

(* C24: a reindex whose gzuc_open gave no stream enters no member, parses   *)
(* nothing and makes no index-write call; it returns 0, with a fresh index  *)
(* at the index path and the index that was there before, if any, at the    *)
(* .old path.                                                               *)
C24_NoStreamReturnsZero ==
    rx.gzuc = "null" =>
        /\ pc[RX] \in {"outer", "returned"}
        /\ parsed = <<>> /\ indexed = <<>>
        /\ idxfile = "fresh"
        /\ oldidxfile = (IF "old_v1" \in sidefx[RX] THEN "v1" ELSE "none")
        /\ pc[RX] = "returned" => ret[RX] = "0"

(* C24 witness: the log holds an APPLY record, the index that existed is at *)
(* .old, and the reindex without a stream has returned 0.                   *)
C24_Witness ==
    /\ pc[RX] = "returned"
    /\ rx.gzuc = "null"
    /\ ret[RX] = "0"
    /\ \E i \in 1 .. Len(log) : log[i].k = "rec" /\ log[i].verb = "APPLY"
    /\ idxfile = "fresh" /\ oldidxfile = "v1"

====
